---- MODULE Spec2Model ----
(***************************************************************************)
(* Hybrid authentication of the TeamSync server: passport sessions, the   *)
(* signed auth_token cookie, the requireAuth middleware, login and logout. *)
(* One browser (cookie jar) talks to the server; the Credential Store,    *)
(* the session store and the clock are the environment.                   *)
(***************************************************************************)
EXTENDS Integers, FiniteSets, Sequences, TLC

\* ------------------------------------------------------------------ bounds
MaxTime == 24          \* the clock stops advancing after this many hours
TickHours == 12        \* granularity of the clock
MaxSid == 2            \* number of sessions the store holds at once
MaxWs == 2             \* workspace ids that requests address and create
MaxItem == 2           \* project and task ids handed out
MaxInflight == 2       \* join requests in flight at the same time
MaxRequired == 2       \* size of the required sets handed to roleGuard

\* ------------------------------------------------------- program constants
TokenTTL == 24         \* expiresIn: '24h'
Issuer == "team-sync-app"
Audience == "team-sync-users"
Secret == "SESSION_SECRET"

Users == {"u1", "u2"}
EmailOf(u) == IF u = "u1" THEN "u1@x" ELSE "u2@x"
Emails == {EmailOf(u) : u \in Users}
Passwords == {"right", "wrong"}
NoEmail == ""

NoUser == [id |-> "none"]
StoreError == [id |-> "error"]
NoToken == [tok |-> "none"]
Garbage == [tok |-> "garbage"]
NoCookie == [val |-> "none"]
NoSid == 0
NoErr == [name |-> "none"]
NoRole == "undefined"

VARIABLES
  users,      \* Credential Store: user id -> identity record or NoUser
  accounts,   \* Account collection: set of [provider, providerId, userId]
  workspaces, \* Workspace collection: set of [id, owner]
  members,    \* Member collection: set of [id, userId, workspaceId, role]
  nextWs,     \* next workspace id
  projects,   \* Project collection: set of [id, workspace]
  tasks,      \* Task collection: set of [id, project, workspace]
  nextId,     \* next member id
  nextItem,   \* next project or task id
  pending,    \* join requests that passed their checks and have not saved yet
  sessions,   \* session store: sid -> serialized user or NoUser
  jar,        \* the browser's cookies: session_id, auth_token, auth_user
  now,        \* the clock, in hours
  kept,       \* a token the client copied aside, and whether the client has
              \* logged out while it was the auth_token cookie
  last,       \* the outcome of the request handled by the last step
  nodeEnv,    \* process.env.NODE_ENV of the server process
  loaded      \* the request whose session has been loaded and which has not
              \* reached requireAuth yet

vars == <<users, accounts, workspaces, members, nextWs, projects, tasks,
          nextId, nextItem, pending, sessions, jar, now, kept, last, nodeEnv,
          loaded>>

NoReq == [op |-> "none"]
NoOptions == [path |-> "none"]
NoLoad == [route |-> "none"]
CookieMaxAge == 24     \* maxAge: 24 * 60 * 60 * 1000 ms, in hours
Unset == "unset"
NodeEnvs == {"production", "development", "test", Unset}
NoJoin == [userId |-> "none"]
NoWs == 0
Slots == 1..MaxInflight
WsIds == 1..MaxWs

\* --------------------------------------------------------------- token codec
generateJWT(payload, t) ==
  [id |-> payload.id, email |-> payload.email, role |-> payload.role,
   exp |-> t + TokenTTL, key |-> Secret, iss |-> Issuer, aud |-> Audience]

\* jwt.verify with the expiry check left out
verifyJWTIgnoreExpiration(token, t) ==
  IF token = Garbage THEN [ok |-> FALSE, reason |-> "jwt malformed"]
  ELSE IF token.key # Secret THEN [ok |-> FALSE, reason |-> "invalid signature"]
  ELSE IF token.aud # Audience THEN [ok |-> FALSE, reason |-> "jwt audience invalid"]
  ELSE IF token.iss # Issuer THEN [ok |-> FALSE, reason |-> "jwt issuer invalid"]
  ELSE [ok |-> TRUE, reason |-> "none",
        payload |-> [id |-> token.id, email |-> token.email, role |-> token.role]]

\* jwt.verify with the audience option left out
verifyJWTAnyAudience(token, t) ==
  IF token = Garbage THEN [ok |-> FALSE, reason |-> "jwt malformed"]
  ELSE IF token.key # Secret THEN [ok |-> FALSE, reason |-> "invalid signature"]
  ELSE IF t >= token.exp THEN [ok |-> FALSE, reason |-> "jwt expired"]
  ELSE IF token.iss # Issuer THEN [ok |-> FALSE, reason |-> "jwt issuer invalid"]
  ELSE [ok |-> TRUE, reason |-> "none",
        payload |-> [id |-> token.id, email |-> token.email, role |-> token.role]]

\* jwt.verify: signature, then expiry, then audience, then issuer
verifyJWT(token, t) ==
  IF token = Garbage THEN [ok |-> FALSE, reason |-> "jwt malformed"]
  ELSE IF token.key # Secret THEN [ok |-> FALSE, reason |-> "invalid signature"]
  ELSE IF t >= token.exp THEN [ok |-> FALSE, reason |-> "jwt expired"]
  ELSE IF token.aud # Audience THEN [ok |-> FALSE, reason |-> "jwt audience invalid"]
  ELSE IF token.iss # Issuer THEN [ok |-> FALSE, reason |-> "jwt issuer invalid"]
  ELSE [ok |-> TRUE, reason |-> "none",
        payload |-> [id |-> token.id, email |-> token.email, role |-> token.role]]

\* ------------------------------------------------------------ session layer
Sids == 1..MaxSid

\* express-session + passport.session(): req.user is whatever was serialized
\* into the session (deserializeUser is the identity function)
deserializeUser(sid) ==
  IF sid # NoSid /\ sessions[sid] # NoUser THEN sessions[sid] ELSE NoUser

\* passport.serializeUser: the whole user object goes into the session
serializeUser(user) == user

omitPassword(user) == user

Unauthorized(msg) == [name |-> "UnauthorizedException", status |-> 401, message |-> msg]
NotFound(msg) == [name |-> "NotFoundException", status |-> 404, message |-> msg]
BadRequest(msg) == [name |-> "BadRequestException", status |-> 400, message |-> msg]

\* ---------------------------------------------------------- cookie options
\* getEnv: the value of the variable, or the default when it is not set
getEnv(value, defaultValue) == IF value = Unset THEN defaultValue ELSE value

\* config.NODE_ENV
configNodeEnv == getEnv(nodeEnv, "development")

\* the options setAuthCookies sets the auth_token cookie with
authTokenOptions(env) ==
  [httpOnly |-> TRUE, secure |-> env = "production",
   sameSite |-> IF env = "production" THEN "none" ELSE "lax",
   maxAge |-> CookieMaxAge, path |-> "/"]

\* the auth_user cookie hidden from scripts like the auth_token cookie
authUserOptionsHttpOnly(env) == authTokenOptions(env)

\* the options setAuthCookies sets the auth_user cookie with
authUserOptions(env) ==
  [httpOnly |-> FALSE, secure |-> env = "production",
   sameSite |-> IF env = "production" THEN "none" ELSE "lax",
   maxAge |-> CookieMaxAge, path |-> "/"]

\* cookieOptions of clearAuthCookies, and what it hands to clearCookie
clearAuthCookiesOptions(env) ==
  LET cookieOptions ==
        [httpOnly |-> TRUE, secure |-> env = "production",
         sameSite |-> IF env = "production" THEN "none" ELSE "lax",
         path |-> "/"]
  IN [n \in {"auth_token", "auth_user"} |->
        IF n = "auth_token" THEN cookieOptions
        ELSE [cookieOptions EXCEPT !.httpOnly = FALSE]]

\* the catch block of requireAuth with the same-site policy of production
\* in every mode
invalidTokenClearOptionsNone(env) ==
  LET cookieOptions ==
        [httpOnly |-> TRUE, secure |-> env = "production",
         sameSite |-> "none", path |-> "/"]
  IN [n \in {"auth_token", "auth_user"} |->
        IF n = "auth_token" THEN cookieOptions
        ELSE [cookieOptions EXCEPT !.httpOnly = FALSE]]

\* cookieOptions of the catch block of requireAuth, which reads
\* process.env.NODE_ENV, and what it hands to clearCookie
invalidTokenClearOptions(env) ==
  LET cookieOptions ==
        [httpOnly |-> TRUE, secure |-> env = "production",
         sameSite |-> IF env = "production" THEN "none" ELSE "lax",
         path |-> "/"]
  IN [n \in {"auth_token", "auth_user"} |->
        IF n = "auth_token" THEN cookieOptions
        ELSE [cookieOptions EXCEPT !.httpOnly = FALSE]]

\* ------------------------------------------------------------- requireAuth
\* if (req.user && req.user._id)
sessionAuthenticated(reqUser) == reqUser # NoUser /\ reqUser.id # "none"

\* if (!user) after UserModel.findById(decoded.id)
userMissingNever(user) == FALSE
userMissing(user) == user = NoUser

\* req.user = user
attachUserFromClaims(user, decoded) == decoded
attachUser(user, decoded) == user

\* the cookies the catch block clears for an error that is not Unauthorized
invalidTokenClearedTokenOnly == {"auth_token"}
invalidTokenCleared == {"auth_token", "auth_user"}

\* the cookies the catch block clears before it rethrows an Unauthorized error
rethrownClearedBoth == {"auth_token", "auth_user"}
rethrownCleared == {}

\* the error the catch block throws for an error that is not Unauthorized
invalidTokenErrorLeaky(reason) == Unauthorized(reason)
invalidTokenError(reason) ==
  Unauthorized("Invalid authentication token. Please log in again.")

\* requireAuth with the token verified before the session is looked at
requireAuthTokenFirst(reqUser, token, t, store) ==
  IF token # NoToken
  THEN LET decoded == verifyJWT(token, t) IN
    IF ~decoded.ok
    THEN [kind |-> "throw", user |-> NoUser,
          err |-> invalidTokenError(decoded.reason),
          path |-> "token", verifyCalls |-> 1, storeReads |-> 0,
          cleared |-> invalidTokenCleared]
    ELSE LET user == store[decoded.payload.id] IN
      IF user = StoreError
      THEN [kind |-> "throw", user |-> NoUser,
            err |-> invalidTokenError("store error"),
            path |-> "token", verifyCalls |-> 1, storeReads |-> 1,
            cleared |-> invalidTokenCleared]
      ELSE IF userMissing(user)
      THEN [kind |-> "throw", user |-> NoUser,
            err |-> Unauthorized("User not found. Please log in again."),
            path |-> "token", verifyCalls |-> 1, storeReads |-> 1,
            cleared |-> rethrownCleared]
      ELSE [kind |-> "next", user |-> attachUser(user, decoded.payload),
            err |-> NoErr, path |-> "token",
            verifyCalls |-> 1, storeReads |-> 1, cleared |-> {}]
  ELSE IF sessionAuthenticated(reqUser)
  THEN [kind |-> "next", user |-> reqUser, err |-> NoErr, path |-> "session",
        verifyCalls |-> 0, storeReads |-> 0, cleared |-> {}]
  ELSE [kind |-> "throw", user |-> NoUser,
        err |-> Unauthorized("Unauthorized. Please log in."), path |-> "none",
        verifyCalls |-> 0, storeReads |-> 0, cleared |-> rethrownCleared]

\* The middleware as a function of the request (req.user set by passport,
\* the auth_token cookie), the clock and the Credential Store.  The result
\* is next() or the exception thrown, the user attached to the request, the
\* number of token verifications and store reads, and the cookies cleared.
requireAuth(reqUser, token, t, store) ==
  IF sessionAuthenticated(reqUser)
  THEN [kind |-> "next", user |-> reqUser, err |-> NoErr, path |-> "session",
        verifyCalls |-> 0, storeReads |-> 0, cleared |-> {}]
  ELSE IF token = NoToken
  THEN [kind |-> "throw", user |-> NoUser,
        err |-> Unauthorized("Unauthorized. Please log in."), path |-> "none",
        verifyCalls |-> 0, storeReads |-> 0, cleared |-> rethrownCleared]
  ELSE LET decoded == verifyJWT(token, t) IN
    IF ~decoded.ok
    THEN [kind |-> "throw", user |-> NoUser,
          err |-> invalidTokenError(decoded.reason),
          path |-> "token", verifyCalls |-> 1, storeReads |-> 0,
          cleared |-> invalidTokenCleared]
    ELSE LET user == store[decoded.payload.id] IN
      IF user = StoreError
      THEN [kind |-> "throw", user |-> NoUser,
            err |-> invalidTokenError("store error"),
            path |-> "token", verifyCalls |-> 1, storeReads |-> 1,
            cleared |-> invalidTokenCleared]
      ELSE IF userMissing(user)
      THEN [kind |-> "throw", user |-> NoUser,
            err |-> Unauthorized("User not found. Please log in again."),
            path |-> "token", verifyCalls |-> 1, storeReads |-> 1,
            cleared |-> rethrownCleared]
      ELSE [kind |-> "next", user |-> attachUser(user, decoded.payload),
            err |-> NoErr, path |-> "token",
            verifyCalls |-> 1, storeReads |-> 1, cleared |-> {}]

\* res.clearCookie applied to the browser's cookies
clearCookies(j, names) ==
  [j EXCEPT !.token = IF "auth_token" \in names THEN NoToken ELSE @,
            !.authUser = IF "auth_user" \in names THEN NoCookie ELSE @,
            !.tokenOptions = IF "auth_token" \in names THEN NoOptions ELSE @,
            !.userOptions = IF "auth_user" \in names THEN NoOptions ELSE @]

\* routers mounted in index.ts and the ones mounted behind requireAuth
Routes == {"user", "workspace", "member", "project", "task"}
RequireAuthMountedButMember == {"user", "workspace", "project", "task"}
RequireAuthMounted == {"user", "workspace", "member", "project", "task"}

\* tokens a client can put into its auth_token cookie without the server
\* having signed them: well-formed claims that never expire within the run,
\* with a signature, an issuer or an audience that is not the server's
Forged ==
  {[id |-> u, email |-> EmailOf(u), role |-> NoRole,
    exp |-> MaxTime + TokenTTL, key |-> f[1], iss |-> f[2], aud |-> f[3]] :
     u \in Users,
     f \in {<<"other", Issuer, Audience>>, <<Secret, "other", Audience>>,
            <<Secret, Issuer, "other">>}}
Presentable == Forged \cup {NoToken, Garbage}

\* ---------------------------------------------------------------- initial
InitIn(env) ==
  /\ nodeEnv = env
  /\ loaded = NoLoad
  /\ users = [u \in Users |-> NoUser]
  /\ accounts = {}
  /\ workspaces = {}
  /\ members = {}
  /\ nextWs = 1
  /\ projects = {}
  /\ tasks = {}
  /\ nextId = 1
  /\ nextItem = 1
  /\ pending = [i \in Slots |-> NoJoin]
  /\ sessions = [s \in Sids |-> NoUser]
  /\ jar = [sid |-> NoSid, token |-> NoToken, authUser |-> NoCookie,
            tokenOptions |-> NoOptions, userOptions |-> NoOptions]
  /\ now = 0
  /\ kept = [token |-> NoToken, revoked |-> FALSE]
  /\ last = NoReq

Init == InitIn("development")

db == <<users, accounts, workspaces, members, nextWs, projects, tasks, nextId,
        nextItem, pending>>

\* ------------------------------------------------------------ auth services
hasAccount(email) ==
  \E a \in accounts : a.provider = "EMAIL" /\ a.providerId = email
accountOf(email) ==
  CHOOSE a \in accounts : a.provider = "EMAIL" /\ a.providerId = email
comparePasswordAlways(user, password) == TRUE
comparePassword(user, password) == password = "right"

\* verifyUserService: the user without its password, or the error it throws
verifyUserService(email, password) ==
  IF ~hasAccount(email)
  THEN [ok |-> FALSE, err |-> NotFound("Invalid email or password")]
  ELSE LET user == users[accountOf(email).userId] IN
    IF user = NoUser
    THEN [ok |-> FALSE, err |-> NotFound("User not found for the given account")]
    ELSE IF ~comparePassword(user, password)
    THEN [ok |-> FALSE, err |-> Unauthorized("Invalid email or password")]
    ELSE [ok |-> TRUE, user |-> omitPassword(user)]

\* the payload with the id taken from the wrong field
jwtPayloadOfEmailAsId(userObj) ==
  [id |-> userObj.email, email |-> userObj.email, role |-> NoRole]

\* the payload loginController hands to setAuthCookies
jwtPayloadOf(userObj) ==
  [id |-> userObj.id, email |-> userObj.email, role |-> NoRole]

\* setAuthCookies: the signed token and the client-readable copy of the payload
setAuthCookies(j, payload, t) ==
  [j EXCEPT !.token = generateJWT(payload, t),
            !.tokenOptions = authTokenOptions(configNodeEnv),
            !.authUser = [id |-> payload.id, email |-> payload.email,
                          role |-> payload.role],
            !.userOptions = authUserOptions(configNodeEnv)]

\* clearAuthCookies
clearAuthCookiesTokenOnly(j) == clearCookies(j, {"auth_token"})
clearAuthCookies(j) == clearCookies(j, {"auth_token", "auth_user"})

freeSids == {s \in Sids : sessions[s] = NoUser /\ s # jar.sid}

\* ----------------------------------------------------------------- actions
\* POST /auth/register
Register(u) ==
  LET email == EmailOf(u) IN
  IF (\E v \in Users : users[v] # NoUser /\ users[v].email = email)
  THEN /\ last' = [op |-> "register", kind |-> "error",
                   err |-> BadRequest("Email already exists")]
       /\ UNCHANGED <<db, nodeEnv, loaded, sessions, jar, now, kept>>
  ELSE IF \E a \in accounts : a.providerId = email
  THEN /\ last' = [op |-> "register", kind |-> "error",
                   err |-> [name |-> "MongoServerError", status |-> 500,
                            message |-> "E11000 duplicate key"]]
       /\ UNCHANGED <<db, nodeEnv, loaded, sessions, jar, now, kept>>
  ELSE /\ users' = [users EXCEPT ![u] =
                      [id |-> u, email |-> email, isActive |-> TRUE,
                       currentWorkspace |-> nextWs]]
       /\ accounts' = accounts \cup
                      {[provider |-> "EMAIL", providerId |-> email, userId |-> u]}
       /\ workspaces' = workspaces \cup {[id |-> nextWs, owner |-> u]}
       /\ members' = members \cup
                      {[id |-> nextId, userId |-> u, workspaceId |-> nextWs,
                        role |-> "OWNER"]}
       /\ nextWs' = nextWs + 1
       /\ nextId' = nextId + 1
       /\ UNCHANGED <<projects, tasks, nextItem, pending>>
       /\ last' = [op |-> "register", kind |-> "ok", status |-> 201, user |-> u]
       /\ UNCHANGED <<nodeEnv, loaded, sessions, jar, now, kept>>

\* POST /auth/login
Login(email, password) ==
  LET v == verifyUserService(email, password) IN
  IF email = NoEmail
  THEN /\ last' = [op |-> "login", kind |-> "fail", status |-> 401,
                   message |-> "Missing credentials",
                   email |-> email, password |-> password]
       /\ UNCHANGED <<db, nodeEnv, loaded, sessions, jar, now, kept>>
  ELSE IF ~v.ok
  THEN /\ last' = [op |-> "login", kind |-> "error", err |-> v.err,
                   email |-> email, password |-> password]
       /\ UNCHANGED <<db, nodeEnv, loaded, sessions, jar, now, kept>>
  ELSE /\ freeSids # {}
       /\ LET sid == CHOOSE s \in freeSids : \A r \in freeSids : s <= r
              payload == jwtPayloadOf(v.user)
          IN /\ sessions' = [s \in Sids |->
                               IF s = sid THEN serializeUser(v.user)
                               ELSE IF s = jar.sid THEN NoUser
                               ELSE sessions[s]]
             /\ jar' = setAuthCookies([jar EXCEPT !.sid = sid], payload, now)
             /\ last' = [op |-> "login", kind |-> "ok", status |-> 200,
                         user |-> v.user, sid |-> sid,
                         email |-> email, password |-> password]
       /\ UNCHANGED <<db, nodeEnv, loaded, now, kept>>

\* req.session.destroy: the store forgets the session unless it fails
destroySession(ss, sid, destroyOk) ==
  IF destroyOk THEN [s \in Sids |-> IF s = sid THEN NoUser ELSE ss[s]] ELSE ss

\* the status logOutController answers with
logoutStatusFailing(destroyOk) == IF destroyOk THEN 200 ELSE 500
logoutStatus(destroyOk) == 200

\* POST /auth/logout; destroyOk tells whether the store destroys the session
LogoutWith(destroyOk) ==
  /\ jar' = clearAuthCookies(jar)
  /\ sessions' = destroySession(sessions, jar.sid, destroyOk)
  /\ kept' = IF kept.token # NoToken /\ kept.token = jar.token
             THEN [kept EXCEPT !.revoked = TRUE] ELSE kept
  /\ last' = [op |-> "logout", kind |-> "ok",
              status |-> logoutStatus(destroyOk), sid |-> jar.sid,
              token |-> jar.token, reqUser |-> deserializeUser(jar.sid),
              userAfter |-> NoUser, destroyOk |-> destroyOk,
              clearedWith |-> clearAuthCookiesOptions(configNodeEnv)]
  /\ UNCHANGED <<db, nodeEnv, loaded, now>>

Logout == LogoutWith(TRUE)

\* req.cookies.auth_token: the token the request presents
presentedTokenUnlessRevoked(j) ==
  IF kept.revoked /\ j.token = kept.token THEN NoToken ELSE j.token
presentedToken(j) == j.token

\* the Credential Store as findById sees it: every read throws when it is down
storeView(storeFault) ==
  IF storeFault THEN [u \in Users |-> StoreError] ELSE users

\* the session middleware, passport.session() and requireAuth in front of a
\* router; sessFault: the session store fails to load the session
authPipeline(route, sessFault, storeFault) ==
  IF sessFault /\ jar.sid # NoSid
  THEN [kind |-> "throw", user |-> NoUser, reqUser |-> NoUser,
        err |-> [name |-> "Error", status |-> 500,
                 message |-> "session store error"],
        path |-> "session-store", verifyCalls |-> 0, storeReads |-> 0,
        sessionReads |-> 1, cleared |-> {}]
  ELSE LET reqUser == deserializeUser(jar.sid)
           r == IF route \in RequireAuthMounted
                THEN requireAuth(reqUser, presentedToken(jar), now,
                                 storeView(storeFault))
                ELSE [kind |-> "next", user |-> reqUser, err |-> NoErr,
                      path |-> "open", verifyCalls |-> 0, storeReads |-> 0,
                      cleared |-> {}]
       IN [kind |-> r.kind, user |-> r.user, reqUser |-> reqUser,
           err |-> r.err, path |-> r.path, verifyCalls |-> r.verifyCalls,
           storeReads |-> r.storeReads,
           sessionReads |-> IF jar.sid # NoSid THEN 1 ELSE 0,
           cleared |-> r.cleared]

\* a request to one of the routers of index.ts
ProtectedRequestWith(route, sessFault, storeFault) ==
  \E r \in {authPipeline(route, sessFault, storeFault)} :
     /\ jar' = clearCookies(jar, r.cleared)
     /\ last' = [op |-> "auth", route |-> route, sid |-> jar.sid,
                 token |-> jar.token, reqUser |-> r.reqUser, kind |-> r.kind,
                 user |-> r.user, err |-> r.err, path |-> r.path,
                 verifyCalls |-> r.verifyCalls, storeReads |-> r.storeReads,
                 sessionReads |-> r.sessionReads, cleared |-> r.cleared,
                 clearedWith |-> [n \in r.cleared |->
                                    invalidTokenClearOptions(nodeEnv)[n]],
                 sessFault |-> sessFault, storeFault |-> storeFault]
     /\ UNCHANGED <<db, nodeEnv, loaded, sessions, now, kept>>

ProtectedRequest(route) == ProtectedRequestWith(route, FALSE, FALSE)

\* ------------------------------------------------------------- environment
Tick ==
  /\ now + TickHours <= MaxTime
  /\ now' = now + TickHours
  /\ last' = NoReq
  /\ UNCHANGED <<db, nodeEnv, loaded, sessions, jar, kept>>

\* the identity is removed from the Credential Store
RemoveIdentity(u) ==
  /\ users[u] # NoUser
  /\ users' = [users EXCEPT ![u] = NoUser]
  /\ last' = NoReq
  /\ UNCHANGED <<nodeEnv, loaded,
                 accounts, workspaces, members, nextWs, projects, tasks,
                 nextId, nextItem, pending, sessions, jar, now, kept>>

\* the active flag of the identity is flipped
SetActive(u, b) ==
  /\ users[u] # NoUser
  /\ users[u].isActive # b
  /\ users' = [users EXCEPT ![u].isActive = b]
  /\ last' = NoReq
  /\ UNCHANGED <<nodeEnv, loaded,
                 accounts, workspaces, members, nextWs, projects, tasks,
                 nextId, nextItem, pending, sessions, jar, now, kept>>

\* the session store loses a session (expiry, restart of the MemoryStore)
SessionDropped(s) ==
  /\ sessions[s] # NoUser
  /\ sessions' = [sessions EXCEPT ![s] = NoUser]
  /\ last' = NoReq
  /\ UNCHANGED <<db, nodeEnv, loaded, jar, now, kept>>

\* the client replaces its auth_token cookie
ClientSetsToken(t) ==
  /\ t # jar.token
  /\ jar' = [jar EXCEPT !.token = t,
                       !.tokenOptions = IF t = NoToken THEN NoOptions ELSE @]
  /\ last' = NoReq
  /\ UNCHANGED <<db, nodeEnv, loaded, sessions, now, kept>>

Next ==
  \/ \E u \in Users : Register(u)
  \/ \E e \in Emails \cup {NoEmail}, p \in Passwords : Login(e, p)
  \/ Logout
  \/ \E r \in Routes : ProtectedRequest(r)
  \/ Tick
  \/ \E u \in Users : RemoveIdentity(u)
  \/ \E u \in Users, b \in BOOLEAN : SetActive(u, b)
  \/ \E s \in Sids : SessionDropped(s)
  \/ \E t \in Presentable : ClientSetsToken(t)

Spec == Init /\ [][Next]_vars

\* ------------------------------------------------- a client that replays
\* the client copies its auth_token cookie aside
ClientKeepsToken ==
  /\ jar.token \notin Presentable
  /\ kept.token # jar.token
  /\ kept' = [token |-> jar.token, revoked |-> FALSE]
  /\ last' = NoReq
  /\ UNCHANGED <<db, nodeEnv, loaded, sessions, jar, now>>

\* the client puts the copy back into its auth_token cookie
ClientReplaysToken ==
  /\ kept.token # NoToken
  /\ jar.token # kept.token
  /\ jar' = [jar EXCEPT !.token = kept.token]
  /\ last' = NoReq
  /\ UNCHANGED <<db, nodeEnv, loaded, sessions, now, kept>>

NextReplay ==
  \/ \E u \in Users : Register(u)
  \/ \E e \in Emails, p \in Passwords : Login(e, p)
  \/ Logout
  \/ \E r \in Routes : ProtectedRequest(r)
  \/ Tick
  \/ \E u \in Users : RemoveIdentity(u)
  \/ \E s \in Sids : SessionDropped(s)
  \/ ClientKeepsToken
  \/ ClientReplaysToken

SpecReplay == Init /\ [][NextReplay]_vars

\* ------------------------------------------------ stores that can fail
NextFault ==
  \/ \E u \in Users : Register(u)
  \/ \E e \in Emails, p \in Passwords : Login(e, p)
  \/ \E destroyOk \in BOOLEAN : LogoutWith(destroyOk)
  \/ \E r \in Routes, sessFault \in BOOLEAN, storeFault \in BOOLEAN :
        ProtectedRequestWith(r, sessFault, storeFault)
  \/ Tick
  \/ \E u \in Users : RemoveIdentity(u)
  \/ \E s \in Sids : SessionDropped(s)

SpecFault == Init /\ [][NextFault]_vars

\* ------------------------------------------------------ roles and the guard
Roles == {"OWNER", "ADMIN", "MEMBER"}
Permissions ==
  {"VIEW_ONLY", "CREATE_PROJECT", "EDIT_PROJECT", "DELETE_PROJECT",
   "CREATE_TASK", "EDIT_TASK", "DELETE_TASK", "CHANGE_MEMBER_ROLE",
   "EDIT_WORKSPACE", "DELETE_WORKSPACE"}

\* the permission list of each role
RolePermissions ==
  [r \in Roles |->
     CASE r = "OWNER" -> Permissions
       [] r = "ADMIN" -> {"VIEW_ONLY", "CREATE_PROJECT", "EDIT_PROJECT",
                          "DELETE_PROJECT", "CREATE_TASK", "EDIT_TASK",
                          "DELETE_TASK"}
       [] r = "MEMBER" -> {"VIEW_ONLY", "CREATE_TASK", "EDIT_TASK"}]

guardError ==
  Unauthorized("You do not have the necessary permissions to perform this action")

\* roleGuard that lets every role through
roleGuardNone(role, requiredPermissions) == [ok |-> TRUE, err |-> NoErr]

\* roleGuard with some() in place of every()
roleGuardSome(role, requiredPermissions) ==
  LET permissions == RolePermissions[role]
      hasPermission == \E permission \in requiredPermissions :
                          permission \in permissions
  IN IF hasPermission THEN [ok |-> TRUE, err |-> NoErr]
     ELSE [ok |-> FALSE, err |-> guardError]

\* roleGuard: returns, or throws UnauthorizedException
roleGuard(role, requiredPermissions) ==
  LET permissions == RolePermissions[role]
      hasPermission == \A permission \in requiredPermissions :
                          permission \in permissions
  IN IF hasPermission THEN [ok |-> TRUE, err |-> NoErr]
     ELSE [ok |-> FALSE, err |-> guardError]

\* the required sets a caller may hand to roleGuard
RequiredSets == {R \in SUBSET Permissions : Cardinality(R) <= MaxRequired}

\* one call of roleGuard
Guard(role, required) ==
  /\ last' = [op |-> "guard", role |-> role, required |-> required,
              result |-> roleGuard(role, required)]
  /\ UNCHANGED <<db, nodeEnv, loaded, sessions, jar, now, kept>>

NextGuard == \E role \in Roles, required \in RequiredSets : Guard(role, required)

SpecGuard == Init /\ [][NextGuard]_vars

\* ------------------------------------------------------- workspace requests
workspaceExists(workspaceId) == \E w \in workspaces : w.id = workspaceId
workspaceOf(workspaceId) == CHOOSE w \in workspaces : w.id = workspaceId
membersOf(userId, workspaceId) ==
  {m \in members : m.userId = userId /\ m.workspaceId = workspaceId}

\* Model.findOne: the first matching document in insertion order
findOne(S) == CHOOSE m \in S : \A n \in S : m.id <= n.id

\* getMemberRoleInWorkspace answering NotFound to a non-member
getMemberRoleInWorkspaceNotFound(userId, workspaceId) ==
  IF ~workspaceExists(workspaceId)
  THEN [ok |-> FALSE, role |-> NoRole, err |-> NotFound("Workspace not found")]
  ELSE IF membersOf(userId, workspaceId) = {}
  THEN [ok |-> FALSE, role |-> NoRole, err |-> NotFound("Workspace not found")]
  ELSE [ok |-> TRUE, role |-> findOne(membersOf(userId, workspaceId)).role,
        err |-> NoErr]

\* getMemberRoleInWorkspace: the role name, or the error it throws
getMemberRoleInWorkspace(userId, workspaceId) ==
  IF ~workspaceExists(workspaceId)
  THEN [ok |-> FALSE, role |-> NoRole, err |-> NotFound("Workspace not found")]
  ELSE IF membersOf(userId, workspaceId) = {}
  THEN [ok |-> FALSE, role |-> NoRole,
        err |-> Unauthorized("You are not a member of this workspace")]
  ELSE [ok |-> TRUE, role |-> findOne(membersOf(userId, workspaceId)).role,
        err |-> NoErr]

\* errorHandler: the response an error reaches the client as
errorHandler(err) ==
  IF err.name = "SyntaxError"
  THEN [status |-> 400, message |-> "Invalid JSON payload"]
  ELSE [status |-> 500, message |-> err.message]

\* the controllers that address a workspace by its id
WorkspaceOps ==
  {"getWorkspaceById", "getWorkspaceMembers", "getWorkspaceAnalytics",
   "changeWorkspaceMemberRole", "updateWorkspaceById", "deleteWorkspaceById"}
ProjectOps ==
  {"createProject", "getAllProjectsInWorkspace", "getProjectByIdAndWorkspaceId",
   "getProjectAnalytics", "updateProject", "deleteProject"}
TaskOps == {"createTask", "updateTask", "getAllTasks", "getTaskById", "deleteTask"}
WsOps == WorkspaceOps \cup ProjectOps \cup TaskOps

RouteOf(op) ==
  IF op \in WorkspaceOps THEN "workspace"
  ELSE IF op \in ProjectOps THEN "project" ELSE "task"

\* the permission each controller hands to roleGuard
RequiredPermissions(op) ==
  CASE op \in {"getWorkspaceMembers", "getWorkspaceAnalytics",
               "getAllProjectsInWorkspace", "getProjectByIdAndWorkspaceId",
               "getProjectAnalytics", "getAllTasks", "getTaskById"}
         -> {"VIEW_ONLY"}
    [] op = "changeWorkspaceMemberRole" -> {"CHANGE_MEMBER_ROLE"}
    [] op = "updateWorkspaceById" -> {"EDIT_WORKSPACE"}
    [] op = "deleteWorkspaceById" -> {"DELETE_WORKSPACE"}
    [] op = "createProject" -> {"CREATE_PROJECT"}
    [] op = "updateProject" -> {"EDIT_PROJECT"}
    [] op = "deleteProject" -> {"DELETE_PROJECT"}
    [] op = "createTask" -> {"CREATE_TASK"}
    [] op = "updateTask" -> {"EDIT_TASK"}
    [] op = "deleteTask" -> {"DELETE_TASK"}
    [] OTHER -> {}

\* the controllers that call roleGuard
CallsRoleGuardButDelete == WsOps \ {"getWorkspaceById", "deleteWorkspaceById"}
CallsRoleGuard == WsOps \ {"getWorkspaceById"}

\* what runs in front of a controller's service call: requireAuth at the
\* mount point, then getMemberRoleInWorkspace, then roleGuard
controllerGate(op, workspaceId) ==
  LET a == authPipeline(RouteOf(op), FALSE, FALSE) IN
  IF a.kind = "throw"
  THEN [ok |-> FALSE, stages |-> <<>>, user |-> NoUser.id, role |-> NoRole,
        err |-> a.err, cleared |-> a.cleared]
  ELSE LET userId == a.user.id
           r == getMemberRoleInWorkspace(userId, workspaceId)
       IN IF ~r.ok
          THEN [ok |-> FALSE, stages |-> <<"authenticate">>, user |-> userId,
                role |-> NoRole, err |-> r.err, cleared |-> {}]
          ELSE IF op \notin CallsRoleGuard
          THEN [ok |-> TRUE, stages |-> <<"authenticate", "resolveRole">>,
                user |-> userId, role |-> r.role, err |-> NoErr,
                cleared |-> {}]
          ELSE IF ~roleGuard(r.role, RequiredPermissions(op)).ok
          THEN [ok |-> FALSE, stages |-> <<"authenticate", "resolveRole">>,
                user |-> userId, role |-> r.role,
                err |-> roleGuard(r.role, RequiredPermissions(op)).err,
                cleared |-> {}]
          ELSE [ok |-> TRUE,
                stages |-> <<"authenticate", "resolveRole", "roleGuard">>,
                user |-> userId, role |-> r.role, err |-> NoErr,
                cleared |-> {}]

\* the outcome of a request to one of the controllers of WsOps; ran tells
\* whether the controller called its service
wsLast(op, workspaceId, g, ran, err) ==
  [op |-> "ws", name |-> op, ws |-> workspaceId, user |-> g.user,
   role |-> g.role, stages |-> g.stages, ran |-> ran, err |-> err,
   response |-> IF err = NoErr THEN [status |-> 200, message |-> "ok"]
                ELSE errorHandler(err)]

projectIn(projectId, workspaceId) ==
  \E p \in projects : p.id = projectId /\ p.workspace = workspaceId
taskIn(taskId, workspaceId) ==
  \E t \in tasks : t.id = taskId /\ t.workspace = workspaceId

\* the controllers whose service reads, or writes fields that are not modelled
QueryOps ==
  WsOps \ {"changeWorkspaceMemberRole", "deleteWorkspaceById", "createProject",
           "deleteProject", "createTask", "deleteTask"}
ItemIds == 1..MaxItem
NoItem == 0

\* the error of a service that looks up the project or the task it is about
queryServiceError(op, workspaceId, item) ==
  IF op \in {"getProjectByIdAndWorkspaceId", "getProjectAnalytics",
             "updateProject"} /\ ~projectIn(item, workspaceId)
  THEN NotFound("Project not found or does not belong to the specified workspace")
  ELSE IF op \in {"updateTask", "getTaskById"} /\ ~taskIn(item, workspaceId)
  THEN NotFound("Task not found.")
  ELSE NoErr

\* the item ids a request to the controller may name
ItemsOf(op) ==
  IF op \in {"getProjectByIdAndWorkspaceId", "getProjectAnalytics",
             "updateProject", "updateTask", "getTaskById"}
  THEN ItemIds ELSE {NoItem}

\* a request to a controller of QueryOps whose rejection also destroys the
\* caller's session
WorkspaceRequestDroppingSession(op, workspaceId, item) ==
  \E g \in {controllerGate(op, workspaceId)} :
  /\ jar' = clearCookies(jar, g.cleared)
  /\ last' = IF ~g.ok THEN wsLast(op, workspaceId, g, FALSE, g.err)
             ELSE wsLast(op, workspaceId, g, TRUE,
                         queryServiceError(op, workspaceId, item))
  /\ sessions' = IF ~g.ok THEN destroySession(sessions, jar.sid, TRUE)
                 ELSE sessions
  /\ UNCHANGED <<db, nodeEnv, loaded, now, kept>>

\* a request to a controller of QueryOps
WorkspaceRequest(op, workspaceId, item) ==
  \E g \in {controllerGate(op, workspaceId)} :
  /\ jar' = clearCookies(jar, g.cleared)
  /\ last' = IF ~g.ok THEN wsLast(op, workspaceId, g, FALSE, g.err)
             ELSE wsLast(op, workspaceId, g, TRUE,
                         queryServiceError(op, workspaceId, item))
  /\ UNCHANGED <<db, nodeEnv, loaded, sessions, now, kept>>

\* PUT /workspace/change/member/role/:id
ChangeMemberRole(workspaceId, memberId, role) ==
  \E g \in {controllerGate("changeWorkspaceMemberRole", workspaceId)} :
  LET op == "changeWorkspaceMemberRole"
      found == membersOf(memberId, workspaceId)
  IN /\ jar' = clearCookies(jar, g.cleared)
     /\ IF ~g.ok
        THEN /\ last' = wsLast(op, workspaceId, g, FALSE, g.err)
             /\ UNCHANGED members
        ELSE IF found = {}
        THEN /\ last' = wsLast(op, workspaceId, g, TRUE,
                               [name |-> "Error", status |-> 500,
                                message |-> "Member not found in the workspace"])
             /\ UNCHANGED members
        ELSE /\ members' = (members \ {findOne(found)}) \cup
                           {[findOne(found) EXCEPT !.role = role]}
             /\ last' = wsLast(op, workspaceId, g, TRUE, NoErr)
     /\ UNCHANGED <<nodeEnv, loaded,
                    users, accounts, workspaces, nextWs, projects, tasks,
                    nextId, nextItem, pending, sessions, now, kept>>

\* deleteWorkspaceService, after the controller's checks
deleteWorkspaceService(workspaceId, userId, g) ==
  LET op == "deleteWorkspaceById"
      remaining == {m \in members : m.workspaceId # workspaceId}
      mine == {m \in remaining : m.userId = userId}
  IN IF workspaceOf(workspaceId).owner # userId
     THEN /\ last' = wsLast(op, workspaceId, g, TRUE,
                   BadRequest("You are not authorized to delete this workspace"))
          /\ UNCHANGED <<users, workspaces, members, projects, tasks>>
     ELSE IF users[userId] = NoUser
     THEN /\ last' = wsLast(op, workspaceId, g, TRUE, NotFound("User not found"))
          /\ UNCHANGED <<users, workspaces, members, projects, tasks>>
     ELSE /\ projects' = {p \in projects : p.workspace # workspaceId}
          /\ tasks' = {t \in tasks : t.workspace # workspaceId}
          /\ members' = remaining
          /\ users' = IF users[userId].currentWorkspace = workspaceId
                      THEN [users EXCEPT ![userId].currentWorkspace =
                              IF mine = {} THEN NoWs
                              ELSE findOne(mine).workspaceId]
                      ELSE users
          /\ workspaces' = workspaces \ {workspaceOf(workspaceId)}
          /\ last' = wsLast(op, workspaceId, g, TRUE, NoErr)

\* DELETE /workspace/delete/:id
DeleteWorkspace(workspaceId) ==
  \E g \in {controllerGate("deleteWorkspaceById", workspaceId)} :
  LET op == "deleteWorkspaceById"
  IN /\ jar' = clearCookies(jar, g.cleared)
     /\ IF ~g.ok
        THEN /\ last' = wsLast(op, workspaceId, g, FALSE, g.err)
             /\ UNCHANGED <<users, workspaces, members, projects, tasks>>
        ELSE deleteWorkspaceService(workspaceId, g.user, g)
     /\ UNCHANGED <<nodeEnv, loaded,
                    accounts, nextWs, nextId, nextItem, pending, sessions, now,
                    kept>>

\* POST /project/workspace/:workspaceId/create
CreateProject(workspaceId) ==
  \E g \in {controllerGate("createProject", workspaceId)} :
  LET op == "createProject"
  IN /\ g.ok => nextItem <= MaxItem
     /\ jar' = clearCookies(jar, g.cleared)
     /\ IF ~g.ok
        THEN /\ last' = wsLast(op, workspaceId, g, FALSE, g.err)
             /\ UNCHANGED <<projects, nextItem>>
        ELSE /\ projects' = projects \cup
                            {[id |-> nextItem, workspace |-> workspaceId]}
             /\ nextItem' = nextItem + 1
             /\ last' = wsLast(op, workspaceId, g, TRUE, NoErr)
     /\ UNCHANGED <<nodeEnv, loaded,
                    users, accounts, workspaces, members, nextWs, tasks, nextId,
                    pending, sessions, now, kept>>

\* DELETE /project/:id/workspace/:workspaceId/delete
DeleteProject(workspaceId, projectId) ==
  \E g \in {controllerGate("deleteProject", workspaceId)} :
  LET op == "deleteProject"
  IN /\ jar' = clearCookies(jar, g.cleared)
     /\ IF ~g.ok
        THEN /\ last' = wsLast(op, workspaceId, g, FALSE, g.err)
             /\ UNCHANGED <<projects, tasks>>
        ELSE IF ~projectIn(projectId, workspaceId)
        THEN /\ last' = wsLast(op, workspaceId, g, TRUE, NotFound(
                 "Project not found or does not belong to the specified workspace"))
             /\ UNCHANGED <<projects, tasks>>
        ELSE /\ projects' = {p \in projects : p.id # projectId}
             /\ tasks' = {t \in tasks : t.project # projectId}
             /\ last' = wsLast(op, workspaceId, g, TRUE, NoErr)
     /\ UNCHANGED <<nodeEnv, loaded,
                    users, accounts, workspaces, members, nextWs, nextId,
                    nextItem, pending, sessions, now, kept>>

\* POST /task/project/:projectId/workspace/:workspaceId/create
CreateTask(workspaceId, projectId) ==
  \E g \in {controllerGate("createTask", workspaceId)} :
  LET op == "createTask"
  IN /\ g.ok => nextItem <= MaxItem
     /\ jar' = clearCookies(jar, g.cleared)
     /\ IF ~g.ok
        THEN /\ last' = wsLast(op, workspaceId, g, FALSE, g.err)
             /\ UNCHANGED <<tasks, nextItem>>
        ELSE IF ~projectIn(projectId, workspaceId)
        THEN /\ last' = wsLast(op, workspaceId, g, TRUE, NotFound(
                 "Project not found or does not belong to this workspace"))
             /\ UNCHANGED <<tasks, nextItem>>
        ELSE /\ tasks' = tasks \cup {[id |-> nextItem, project |-> projectId,
                                      workspace |-> workspaceId]}
             /\ nextItem' = nextItem + 1
             /\ last' = wsLast(op, workspaceId, g, TRUE, NoErr)
     /\ UNCHANGED <<nodeEnv, loaded,
                    users, accounts, workspaces, members, nextWs, projects,
                    nextId, pending, sessions, now, kept>>

\* DELETE /task/:id/workspace/:workspaceId/delete
DeleteTask(workspaceId, taskId) ==
  \E g \in {controllerGate("deleteTask", workspaceId)} :
  LET op == "deleteTask"
  IN /\ jar' = clearCookies(jar, g.cleared)
     /\ IF ~g.ok
        THEN /\ last' = wsLast(op, workspaceId, g, FALSE, g.err)
             /\ UNCHANGED tasks
        ELSE IF ~taskIn(taskId, workspaceId)
        THEN /\ last' = wsLast(op, workspaceId, g, TRUE, NotFound(
                 "Task not found or does not belong to the specified workspace"))
             /\ UNCHANGED tasks
        ELSE /\ tasks' = {t \in tasks : t.id # taskId}
             /\ last' = wsLast(op, workspaceId, g, TRUE, NoErr)
     /\ UNCHANGED <<nodeEnv, loaded,
                    users, accounts, workspaces, members, nextWs, projects,
                    nextId, nextItem, pending, sessions, now, kept>>

\* POST /workspace/create/new
CreateWorkspace ==
  \E a \in {authPipeline("workspace", FALSE, FALSE)} :
  /\ a.kind = "next" => nextWs <= MaxWs
  /\ jar' = clearCookies(jar, a.cleared)
  /\ IF a.kind = "throw"
     THEN /\ last' = [op |-> "create", kind |-> "error", user |-> NoUser.id,
                      response |-> errorHandler(a.err)]
          /\ UNCHANGED <<users, workspaces, members, nextWs, nextId>>
     ELSE IF users[a.user.id] = NoUser
     THEN /\ last' = [op |-> "create", kind |-> "error", user |-> a.user.id,
                      response |-> errorHandler(NotFound("User not found"))]
          /\ UNCHANGED <<users, workspaces, members, nextWs, nextId>>
     ELSE /\ workspaces' = workspaces \cup
                           {[id |-> nextWs, owner |-> a.user.id]}
          /\ members' = members \cup
                        {[id |-> nextId, userId |-> a.user.id,
                          workspaceId |-> nextWs, role |-> "OWNER"]}
          /\ users' = [users EXCEPT ![a.user.id].currentWorkspace = nextWs]
          /\ nextWs' = nextWs + 1
          /\ nextId' = nextId + 1
          /\ last' = [op |-> "create", kind |-> "ok", user |-> a.user.id,
                      response |-> [status |-> 201, message |-> "ok"]]
  /\ UNCHANGED <<nodeEnv, loaded,
                 accounts, projects, tasks, nextItem, pending, sessions, now,
                 kept>>

\* POST /member/workspace/:inviteCode/join, up to newMember.save(): the
\* workspace's invite code is identified with its id
JoinCheck(slot, inviteCode) ==
  \E a \in {authPipeline("member", FALSE, FALSE)} :
  /\ pending[slot] = NoJoin
  /\ jar' = clearCookies(jar, a.cleared)
  /\ IF a.kind = "throw"
     THEN /\ last' = [op |-> "join", kind |-> "error", user |-> NoUser.id,
                      ws |-> inviteCode, response |-> errorHandler(a.err)]
          /\ UNCHANGED pending
     ELSE IF ~workspaceExists(inviteCode)
     THEN /\ last' = [op |-> "join", kind |-> "error", user |-> a.user.id,
                      ws |-> inviteCode,
                      response |-> errorHandler(NotFound(
                          "Invalid invite code or workspace not found"))]
          /\ UNCHANGED pending
     ELSE IF membersOf(a.user.id, inviteCode) # {}
     THEN /\ last' = [op |-> "join", kind |-> "error", user |-> a.user.id,
                      ws |-> inviteCode,
                      response |-> errorHandler(BadRequest(
                          "You are already a member of this workspace"))]
          /\ UNCHANGED pending
     ELSE /\ pending' = [pending EXCEPT ![slot] =
                           [userId |-> a.user.id, workspaceId |-> inviteCode]]
          /\ last' = NoReq
  /\ UNCHANGED <<nodeEnv, loaded,
                 users, accounts, workspaces, members, nextWs, projects, tasks,
                 nextId, nextItem, sessions, now, kept>>

\* newMember.save() of a join request, and its response
JoinSave(slot) ==
  /\ pending[slot] # NoJoin
  /\ members' = members \cup
                {[id |-> nextId, userId |-> pending[slot].userId,
                  workspaceId |-> pending[slot].workspaceId,
                  role |-> "MEMBER"]}
  /\ nextId' = nextId + 1
  /\ pending' = [pending EXCEPT ![slot] = NoJoin]
  /\ last' = [op |-> "join", kind |-> "ok", user |-> pending[slot].userId,
              ws |-> pending[slot].workspaceId,
              response |-> [status |-> 200, message |-> "ok"]]
  /\ UNCHANGED <<nodeEnv, loaded,
                 users, accounts, workspaces, nextWs, projects, tasks,
                 nextItem, sessions, jar, now, kept>>

\* the identity whose browser sends the requests; the other identity only
\* registers, which gives it a workspace of its own
Client == "u1"

NextWs ==
  \/ \E u \in Users : Register(u)
  \/ Login(EmailOf(Client), "right")
  \/ \E w \in WsIds : JoinCheck(1, w)
  \/ JoinSave(1)
  \/ \E op \in QueryOps, w \in WsIds :
        \E x \in ItemsOf(op) : WorkspaceRequest(op, w, x)
  \/ \E w \in WsIds, u \in Users, r \in Roles : ChangeMemberRole(w, u, r)
  \/ \E w \in WsIds : DeleteWorkspace(w)
  \/ \E w \in WsIds : CreateProject(w)
  \/ \E w \in WsIds, x \in ItemIds : DeleteProject(w, x)
  \/ \E w \in WsIds, x \in ItemIds : CreateTask(w, x)
  \/ \E w \in WsIds, x \in ItemIds : DeleteTask(w, x)

SpecWs == Init /\ [][NextWs]_vars

\* ------------------------------------------------ joins that run concurrently
NextJoin ==
  \/ \E u \in Users : Register(u)
  \/ \E e \in Emails : Login(e, "right")
  \/ Logout
  \/ CreateWorkspace
  \/ \E i \in Slots, w \in WsIds : JoinCheck(i, w)
  \/ \E i \in Slots : JoinSave(i)

SpecJoin == Init /\ [][NextJoin]_vars

\* ======================================================================
\* Properties.  `last` is the outcome of the request handled by the step
\* that led to the current state; requireAuth does not change the stores
\* or the clock, so `users`, `sessions` and `now` are the ones it saw.
\* ======================================================================
AuthReq == last.op = "auth"
Accepted == AuthReq /\ last.kind = "next"
Rejected == AuthReq /\ last.kind = "throw"
RejectedUnauthorized ==
  Rejected /\ last.err.name = "UnauthorizedException" /\ last.err.status = 401
NoSessionIdentity == AuthReq /\ last.reqUser = NoUser
TokenPresented == AuthReq /\ last.token # NoToken
TokenVerifies == TokenPresented /\ verifyJWT(last.token, now).ok
\* signed by the server for its issuer and audience, and past its expiry
TokenExpired ==
  /\ TokenPresented /\ last.token # Garbage
  /\ last.token.key = Secret /\ last.token.iss = Issuer
  /\ last.token.aud = Audience /\ now >= last.token.exp

\* C1: a request whose session resolves to an identity is accepted as that
\* identity at once: no token verification and no Credential Store read
\* happens, whatever the auth_token cookie holds.
C1_SessionShortCircuits ==
  (AuthReq /\ last.reqUser # NoUser) =>
     /\ last.kind = "next"
     /\ last.user = last.reqUser
     /\ last.path = "session"
     /\ last.verifyCalls = 0
     /\ last.storeReads = 0
     /\ last.cleared = {}

C1_Witness ==
  /\ AuthReq /\ last.reqUser # NoUser
  /\ TokenPresented /\ ~TokenVerifies
  /\ last.kind = "next" /\ last.user = last.reqUser

\* C2: a request is accepted on the session path only if the identity the
\* session references still exists in the Credential Store.
C2_SessionIdentityLive ==
  (Accepted /\ last.path = "session") => users[last.user.id] # NoUser

C7_ExpiredRejectedAnySession ==
  TokenExpired => Rejected

\* C7 amended: a token past its TTL is rejected whenever the request has no
\* session that resolves to an identity (session destroyed, or none).
C7_ExpiredRejectedWithoutSession ==
  (TokenExpired /\ NoSessionIdentity) => RejectedUnauthorized

C7_Witness ==
  /\ TokenExpired /\ NoSessionIdentity
  /\ last.sid # NoSid
  /\ users[last.token.id] # NoUser
  /\ RejectedUnauthorized

LoginOk == last.op = "login" /\ last.kind = "ok"

\* C9: a successful login leaves a session and a token that verifies, and
\* the session's identity id, the token's id and the auth_user id agree.
C9_LoginIssuesMatchingPair ==
  LoginOk =>
     /\ jar.sid = last.sid
     /\ deserializeUser(jar.sid) # NoUser
     /\ verifyJWT(jar.token, now).ok
     /\ verifyJWT(jar.token, now).payload.id = deserializeUser(jar.sid).id
     /\ jar.authUser # NoCookie
     /\ jar.authUser.id = deserializeUser(jar.sid).id
     /\ deserializeUser(jar.sid).id = last.user.id
     /\ users[last.user.id] # NoUser

C9_Witness ==
  /\ LoginOk
  /\ deserializeUser(jar.sid).id = "u2"
  /\ jar.token.id = "u2" /\ jar.authUser.id = "u2"

C11_FailedLoginIssuesNothing ==
  [][(/\ last'.op = "login"
      /\ last'.email # NoEmail
      /\ (~hasAccount(last'.email) \/ last'.password = "wrong"))
     => (/\ last'.kind = "error"
         /\ last'.err.name \in {"NotFoundException", "UnauthorizedException"}
         /\ sessions' = sessions
         /\ jar' = jar)]_vars

C11_Witness ==
  /\ last.op = "login" /\ last.kind = "error"
  /\ hasAccount(last.email) /\ last.password = "wrong"
  /\ last.err.name = "UnauthorizedException"
  /\ jar.token = NoToken /\ jar.sid = NoSid

\* C12: logging out is idempotent: after any logout both credential cookies
\* are absent, the session is absent and the call reports success, and a
\* logout that directly follows a logout changes nothing and reports success
\* again.
C12_LogoutIdempotent ==
  [][last'.op = "logout"
     => (/\ jar'.token = NoToken
         /\ jar'.authUser = NoCookie
         /\ (jar'.sid = NoSid \/ sessions'[jar'.sid] = NoUser)
         /\ last'.status = 200
         /\ (last.op = "logout" => jar' = jar /\ sessions' = sessions))]_vars

C12_Witness ==
  /\ last.op = "logout" /\ last.status = 200
  /\ last.sid # NoSid /\ last.reqUser = NoUser
  /\ last.token = NoToken
  /\ jar.token = NoToken /\ jar.authUser = NoCookie

C15_GuardConjunctive ==
  last.op = "guard" =>
     /\ last.result.ok = (last.required \subseteq RolePermissions[last.role])
     /\ last.result.ok => last.result.err = NoErr
     /\ ~last.result.ok =>
          /\ last.result.err.name = "UnauthorizedException"
          /\ last.result.err.status = 401
     /\ last.result = roleGuard(last.role, last.required)

C15_Witness ==
  /\ last.op = "guard" /\ ~last.result.ok
  /\ \E p \in last.required : p \in RolePermissions[last.role]
  /\ \E q \in last.required : q \notin RolePermissions[last.role]

WsReq == last.op = "ws"

\* C16: getMemberRoleInWorkspace fails with NotFound when the workspace does
\* not exist, with Unauthorized (not NotFound) when it exists and the identity
\* has no membership in it, and otherwise returns the role of the identity's
\* membership in that workspace.
C16_ResolveRoleOutcomes ==
  [][(last'.op = "ws" /\ Len(last'.stages) >= 1)
     => IF ~workspaceExists(last'.ws)
        THEN /\ last'.stages = <<"authenticate">>
             /\ last'.err.name = "NotFoundException"
        ELSE IF membersOf(last'.user, last'.ws) = {}
        THEN /\ last'.stages = <<"authenticate">>
             /\ last'.err.name = "UnauthorizedException"
        ELSE /\ Len(last'.stages) >= 2
             /\ \E m \in membersOf(last'.user, last'.ws) :
                   m.role = last'.role]_vars

C16_Witness ==
  /\ WsReq /\ last.stages = <<"authenticate">>
  /\ workspaceExists(last.ws)
  /\ membersOf(last.user, last.ws) = {}
  /\ last.err.name = "UnauthorizedException"

\* C17: a caller who is not a member gets, for a workspace that exists, the
\* response the same request gets for a workspace that does not exist, and
\* that response is a client error.
C17_NonMemberIndistinguishable ==
  (WsReq /\ last.stages = <<"authenticate">>)
  => /\ last.response =
          errorHandler(getMemberRoleInWorkspace(last.user, NoWs).err)
     /\ last.response.status \in 400..499

C19_OneMembershipPerWorkspace ==
  \A u \in Users, w \in 1..(nextWs - 1) : Cardinality(membersOf(u, w)) <= 1
\* ------------------------------------------------- deployment modes
\* the server started in any mode: NODE_ENV set to production, development
\* or test, or not set at all
InitDeploy == \E env \in NodeEnvs : InitIn(env)

NextDeploy ==
  \/ \E u \in Users : Register(u)
  \/ \E e \in Emails, p \in Passwords : Login(e, p)
  \/ Logout
  \/ \E r \in Routes : ProtectedRequest(r)
  \/ Tick
  \/ \E s \in Sids : SessionDropped(s)

SpecDeploy == InitDeploy /\ [][NextDeploy]_vars

\* the attribute set that decides which cookie a Set-Cookie header replaces
AttributeSet(options) ==
  [path |-> options.path, sameSite |-> options.sameSite,
   secure |-> options.secure]

\* C21: whenever logout or the invalid-token branch of requireAuth clears an
\* auth cookie that the server issued, the path, same-site policy and secure
\* flag it clears with are the ones the cookie was issued with, in every
\* deployment mode.
C21_ClearMatchesIssue ==
  [][(last'.op \in {"logout", "auth"} =>
        /\ ("auth_token" \in DOMAIN last'.clearedWith
              /\ jar.tokenOptions # NoOptions
            => AttributeSet(last'.clearedWith["auth_token"])
                 = AttributeSet(jar.tokenOptions))
        /\ ("auth_user" \in DOMAIN last'.clearedWith
              /\ jar.userOptions # NoOptions
            => AttributeSet(last'.clearedWith["auth_user"])
                 = AttributeSet(jar.userOptions)))]_vars

\* requireAuth cleared both cookies of an expired token on a server whose
\* NODE_ENV is not set
C21_Witness ==
  /\ nodeEnv = Unset
  /\ last.op = "auth"
  /\ last.token \notin Presentable
  /\ DOMAIN last.clearedWith = {"auth_token", "auth_user"}
  /\ jar.token = NoToken
  /\ jar.tokenOptions = NoOptions

\* a login that has just issued the credentials
IssuedNow == last.op = "login" /\ last.kind = "ok"

\* what C22 says of both policies: two cookies, the token hidden from
\* scripts, the copy readable and holding id, email and role only, one TTL
\* and one same-site policy for both
TwoCookies ==
  /\ jar.token # NoToken
  /\ jar.sid = last.sid
  /\ jar.tokenOptions.httpOnly
  /\ ~jar.userOptions.httpOnly
  /\ DOMAIN jar.authUser = {"id", "email", "role"}
  /\ jar.authUser = [id |-> jar.token.id, email |-> jar.token.email,
                     role |-> jar.token.role]
  /\ jar.tokenOptions.maxAge = jar.userOptions.maxAge
  /\ jar.tokenOptions.sameSite = jar.userOptions.sameSite
  /\ jar.tokenOptions.secure = jar.userOptions.secure

\* C22 as stated: the same-site policy is strict outside production and
\* none together with the secure flag in production.
C22_StrictUnlessCrossOrigin ==
  IssuedNow =>
    /\ TwoCookies
    /\ IF configNodeEnv = "production"
       THEN jar.tokenOptions.sameSite = "none" /\ jar.tokenOptions.secure
       ELSE jar.tokenOptions.sameSite = "strict"

\* C22: setAuthCookies writes two cookies, the token hidden from scripts and
\* a readable copy of id, email and role, with one TTL and one same-site
\* policy, which is lax outside production and none together with the
\* secure flag in production.
C22_LaxUnlessCrossOrigin ==
  IssuedNow =>
    /\ TwoCookies
    /\ IF configNodeEnv = "production"
       THEN jar.tokenOptions.sameSite = "none" /\ jar.tokenOptions.secure
       ELSE jar.tokenOptions.sameSite = "lax" /\ ~jar.tokenOptions.secure

\* a login on a production server has just issued both cookies
C22_Witness ==
  /\ IssuedNow
  /\ nodeEnv = "production"
  /\ jar.tokenOptions.sameSite = "none"
  /\ jar.userOptions.secure

\* ------------------------------------------------- deleting a workspace
\* C23: roleGuard accepts OWNER and rejects MEMBER for {DELETE_WORKSPACE}; a
\* delete-workspace request whose caller's membership role is MEMBER is
\* answered with the guard's Unauthorized error, does not call
\* deleteWorkspaceService and changes no collection, while one whose role is
\* OWNER passes the guard.
C23_MemberNeverDeletes ==
  [][(last'.op = "ws" /\ last'.name = "deleteWorkspaceById")
     => /\ roleGuard("OWNER", RequiredPermissions(last'.name)).ok
        /\ roleGuard("MEMBER", RequiredPermissions(last'.name)).err = guardError
        /\ last'.role = "MEMBER" =>
             /\ ~last'.ran
             /\ last'.err = guardError
             /\ last'.err.name = "UnauthorizedException"
             /\ UNCHANGED <<workspaces, members, projects, tasks, users>>
        /\ last'.role = "OWNER" =>
             /\ last'.ran
             /\ last'.stages = <<"authenticate", "resolveRole", "roleGuard">>]_vars

\* the owner of a workspace, demoted to MEMBER, asked to delete it and was
\* stopped by the guard
C23_Witness ==
  /\ WsReq /\ last.name = "deleteWorkspaceById"
  /\ last.role = "MEMBER"
  /\ ~last.ran
  /\ workspaceExists(last.ws)
  /\ workspaceOf(last.ws).owner = last.user

\* ------------------------------------------------- the token codec alone
\* the claims sets generateJWT is called with
ClaimsSets == [id : Users, email : Emails, role : Roles \cup {NoRole}]

\* hours between signing and verifying
Delays == {0, TokenTTL - 1, TokenTTL, TokenTTL + 1}

\* what a token may be signed with in place of the server's key, issuer or
\* audience
Tampers == {"none", "key", "iss", "aud"}
signedWith(token, tamper) ==
  [token EXCEPT !.key = IF tamper = "key" THEN "other" ELSE @,
                !.iss = IF tamper = "iss" THEN "other" ELSE @,
                !.aud = IF tamper = "aud" THEN "other" ELSE @]

\* generateJWT now, verifyJWT after the delay
JwtRoundTrip(payload, delay, tamper) ==
  /\ last' = [op |-> "jwt", claims |-> payload, issuedAt |-> now,
              verifiedAt |-> now + delay, tamper |-> tamper,
              result |-> verifyJWT(signedWith(generateJWT(payload, now), tamper),
                                   now + delay)]
  /\ UNCHANGED <<db, nodeEnv, loaded, sessions, jar, now, kept>>

NextToken ==
  \/ \E payload \in ClaimsSets, delay \in Delays, tamper \in Tampers :
        JwtRoundTrip(payload, delay, tamper)
  \/ Tick

SpecToken == Init /\ [][NextToken]_vars

NextFrame ==
  \/ \E u \in Users : Register(u)
  \/ Login(EmailOf(Client), "right")
  \/ Logout
  \/ Tick
  \/ \E s \in Sids : SessionDropped(s)
  \/ \E w \in WsIds : JoinCheck(1, w)
  \/ JoinSave(1)
  \/ \E r \in Routes : ProtectedRequest(r)
  \/ \E op \in QueryOps, w \in WsIds :
        \E x \in ItemsOf(op) : WorkspaceRequest(op, w, x)

SpecFrame == Init /\ [][NextFrame]_vars

\* the controllers of QueryOps whose service only reads
ReadOps == QueryOps \ {"updateWorkspaceById", "updateProject", "updateTask"}

GoogleOutcomes == {"denied", "nosub", "profile"}
userByEmail(email) == {u \in Users : users[u] # NoUser /\ users[u].email = email}
idOfEmail(email) == CHOOSE u \in Users : EmailOf(u) = email

\* GET /auth/google/callback: passport.authenticate("google") with the verify
\* callback of the GoogleStrategy and loginOrCreateAccountService, req.logIn,
\* then googleLoginCallback
GoogleLogin(email, outcome) ==
  IF outcome = "denied"
  THEN /\ last' = [op |-> "google", kind |-> "fail", redirect |-> "failure",
                   email |-> email, established |-> NoSid]
       /\ UNCHANGED <<db, nodeEnv, loaded, sessions, jar, now, kept>>
  ELSE IF outcome = "nosub"
  THEN /\ last' = [op |-> "google", kind |-> "error", redirect |-> "none",
                   email |-> email, established |-> NoSid,
                   err |-> NotFound("Google ID (sub) is missing")]
       /\ UNCHANGED <<db, nodeEnv, loaded, sessions, jar, now, kept>>
  ELSE
    /\ freeSids # {}
    /\ userByEmail(email) = {} => nextWs <= MaxWs
    /\ LET u == idOfEmail(email)
           created == [id |-> u, email |-> email, isActive |-> TRUE,
                       currentWorkspace |-> nextWs]
           user == IF userByEmail(email) = {} THEN created
                   ELSE users[CHOOSE v \in userByEmail(email) : TRUE]
           sid == CHOOSE s \in freeSids : \A r \in freeSids : s <= r
           loggedIn == [jar EXCEPT !.sid = sid]
       IN /\ IF userByEmail(email) = {}
             THEN /\ users' = [users EXCEPT ![u] = created]
                  /\ accounts' = accounts \cup
                       {[provider |-> "GOOGLE", providerId |-> "sub",
                         userId |-> u]}
                  /\ workspaces' = workspaces \cup {[id |-> nextWs, owner |-> u]}
                  /\ members' = members \cup
                       {[id |-> nextId, userId |-> u, workspaceId |-> nextWs,
                         role |-> "OWNER"]}
                  /\ nextWs' = nextWs + 1
                  /\ nextId' = nextId + 1
             ELSE UNCHANGED <<users, accounts, workspaces, members, nextWs,
                              nextId>>
          /\ sessions' = [s \in Sids |->
                            IF s = sid THEN serializeUser(user)
                            ELSE IF s = jar.sid THEN NoUser
                            ELSE sessions[s]]
          /\ IF user.currentWorkspace = NoWs
             THEN /\ jar' = loggedIn
                  /\ last' = [op |-> "google", kind |-> "fail",
                              redirect |-> "failure", email |-> email,
                              established |-> sid]
             ELSE /\ jar' = setAuthCookies(loggedIn, jwtPayloadOf(user), now)
                  /\ last' = [op |-> "google", kind |-> "ok",
                              redirect |-> "workspace", email |-> email,
                              established |-> sid]
    /\ UNCHANGED <<nodeEnv, loaded,
                   projects, tasks, nextItem, pending, now, kept>>

NextLogin ==
  \/ \E u \in Users : Register(u)
  \/ \E e \in Emails, p \in Passwords : Login(e, p)
  \/ \E e \in Emails, o \in GoogleOutcomes : GoogleLogin(e, o)
  \/ Logout
  \/ \E w \in WsIds : DeleteWorkspace(w)

SpecLogin == Init /\ [][NextLogin]_vars

\* the identity the session of the browser's session cookie holds
sessionIdentity ==
  IF jar.sid # NoSid /\ sessions[jar.sid] # NoUser
  THEN sessions[jar.sid].id ELSE NoUser.id

\* C26: after a local login or a Google callback, successful or failed, the
\* session and the two token cookies are all established for one identity,
\* or none of them is.
C26_ChannelsAgree ==
  last.op \in {"login", "google"} =>
    \/ /\ sessionIdentity = NoUser.id
       /\ jar.token = NoToken
       /\ jar.authUser = NoCookie
    \/ /\ sessionIdentity # NoUser.id
       /\ jar.token # NoToken
       /\ jar.authUser # NoCookie
       /\ jar.token.id = sessionIdentity
       /\ jar.authUser.id = sessionIdentity

\* ------------------------------------------------- requests in flight
\* the session middleware and passport.session() of a request to a router:
\* store.get hands the session to a callback that runs later, and the
\* request carries what was read (req.user, req.cookies) from here on
SessionLoad(route) ==
  /\ loaded = NoLoad
  /\ loaded' = [route |-> route, sid |-> jar.sid,
                reqUser |-> deserializeUser(jar.sid),
                token |-> presentedToken(jar)]
  /\ last' = NoReq
  /\ UNCHANGED <<db, nodeEnv, sessions, jar, now, kept>>

\* requireAuth of the request in flight, and its response
Decide ==
  /\ loaded # NoLoad
  /\ \E r \in {IF loaded.route \in RequireAuthMounted
               THEN requireAuth(loaded.reqUser, loaded.token, now, users)
               ELSE [kind |-> "next", user |-> loaded.reqUser, err |-> NoErr,
                     path |-> "open", verifyCalls |-> 0, storeReads |-> 0,
                     cleared |-> {}]} :
       /\ jar' = clearCookies(jar, r.cleared)
       /\ last' = [op |-> "auth", route |-> loaded.route, sid |-> loaded.sid,
                   token |-> loaded.token, reqUser |-> loaded.reqUser,
                   kind |-> r.kind, user |-> r.user, err |-> r.err,
                   path |-> r.path, verifyCalls |-> r.verifyCalls,
                   storeReads |-> r.storeReads,
                   sessionReads |-> IF loaded.sid # NoSid THEN 1 ELSE 0,
                   cleared |-> r.cleared,
                   clearedWith |-> [n \in r.cleared |->
                                      invalidTokenClearOptions(nodeEnv)[n]],
                   sessFault |-> FALSE, storeFault |-> FALSE]
  /\ loaded' = NoLoad
  /\ UNCHANGED <<db, nodeEnv, sessions, now, kept>>

NextRace ==
  \/ \E u \in Users : Register(u)
  \/ \E e \in Emails, p \in Passwords : Login(e, p)
  \/ Logout
  \/ \E r \in Routes : SessionLoad(r)
  \/ Decide

SpecRace == Init /\ [][NextRace]_vars

\* C27: once a logout has answered with success, the next request to be
\* decided that bears the session cookie of that logout is not accepted on
\* the session path, whether it arrived before or after the logout.
C27_NoSessionAcceptanceAfterLogout ==
  [][(/\ last.op = "logout" /\ last.status = 200 /\ last.sid # NoSid
      /\ last'.op = "auth" /\ last'.sid = last.sid)
     => ~(last'.kind = "next" /\ last'.path = "session")]_vars

\* ------------------------------------------------- what requireAuth clears
\* C28: requireAuth clears the auth_token and auth_user cookies exactly when
\* it rejects because verifyJWT or the findById that follows it threw; when
\* it rejects because no token was presented or because the token's identity
\* is not in the Credential Store, and when it accepts, every cookie stays,
\* and the session store is never touched.
C28_ClearsOnlyOnForeignError ==
  [][last'.op = "auth" =>
       /\ sessions' = sessions
       /\ jar'.sid = jar.sid
       /\ IF /\ last'.kind = "throw"
             /\ last'.path = "token"
             /\ \/ ~verifyJWT(last'.token, now).ok
                \/ last'.storeFault /\ last'.storeReads > 0
          THEN /\ jar' = clearCookies(jar, {"auth_token", "auth_user"})
               /\ last'.err.message
                    = "Invalid authentication token. Please log in again."
          ELSE jar' = jar]_vars

\* a valid token whose identity is gone was rejected and both cookies are
\* still in the browser
C28_Witness ==
  /\ Rejected
  /\ last.err.message = "User not found. Please log in again."
  /\ verifyJWT(last.token, now).ok
  /\ jar.token = last.token
  /\ jar.authUser # NoCookie

\* ------------------------------------------------- current workspaces
NextPointer ==
  \/ \E u \in Users : Register(u)
  \/ \E e \in Emails : Login(e, "right")
  \/ Logout
  \/ CreateWorkspace
  \/ \E w \in WsIds : JoinCheck(1, w)
  \/ JoinSave(1)
  \/ \E w \in WsIds : DeleteWorkspace(w)

SpecPointer == Init /\ [][NextPointer]_vars

\* C29: the currentWorkspace of every identity is null or the id of an
\* existing workspace in which the identity has a membership.
C29_CurrentWorkspaceValid ==
  \A u \in Users :
     users[u] # NoUser =>
       \/ users[u].currentWorkspace = NoWs
       \/ /\ workspaceExists(users[u].currentWorkspace)
          /\ membersOf(u, users[u].currentWorkspace) # {}

\* ------------------------------------------------- the owner's role
\* C30: in every workspace the identity recorded as its owner has a
\* membership with the role OWNER.
C30_OwnerHoldsOwnerRole ==
  \A w \in workspaces :
     \E m \in membersOf(w.owner, w.id) : m.role = "OWNER"

====
